---- MODULE Spec2Model ----
(***************************************************************************)
(* Model of src/app/BarcodeScanner.tsx: the App component that pairs a     *)
(* participant barcode with a finish token, keeps the pairs in React state *)
(* and mirrors them into AsyncStorage.                                      *)
(*                                                                         *)
(* A string is a tuple of one-character strings.  React state is modelled  *)
(* by two copies: the state as last set (scannedData, currentParticipant)  *)
(* and the state of the last render, which is what the closures of the     *)
(* rendered handlers read (seenScannedData, seenParticipant).              *)
(***************************************************************************)
EXTENDS Integers, Sequences, FiniteSets, TLC

VARIABLES
    permission,          \* useCameraPermissions: Loading, "denied" or "granted"
    scannedData,         \* useState<ScannedData[]>, as last set
    currentParticipant,  \* useState<string | null>, as last set
    bannerMessage,       \* useState<string | null>: the notice slot
    seenScannedData,     \* scannedData of the last render (closure value)
    seenParticipant,     \* currentParticipant of the last render (closure value)
    effectDue,           \* setScannedData was called since the last render
    storage,             \* AsyncStorage: the value under the key 'scannedData'
    load,                \* position of loadScannedData
    saves,               \* setItem calls in flight (their texts)
    clears,              \* clearStorage calls awaiting AsyncStorage.clear()
    timers,              \* banner dismissals in flight
    deck,                \* which deck of barcodes is in circulation at the event
    last,                \* the step just taken and whether it fired a haptic
    startedFrom          \* what AsyncStorage held when the app was opened, for as
                         \* long as the session has run its startup only

vars == <<permission, scannedData, currentParticipant, bannerMessage,
          seenScannedData, seenParticipant, effectDue, storage, load, saves,
          clears, timers, deck, last, startedFrom>>

----------------------------------------------------------------------------
(* Bounds of the model *)

MaxRecords == 2
MaxSaves == 1
MaxOverlap == 2
MaxClears == 1
MaxTimers == 2

----------------------------------------------------------------------------
(* JavaScript values *)

\* null, and the empty string: both are falsy, and a string state never holds ""
Null == <<>>

Loading == "loading"

Num(n) == [t |-> "number", v |-> n]
NaN == [t |-> "NaN", v |-> 0]
Infinity == [t |-> "Infinity", v |-> 1]
NegInfinity == [t |-> "Infinity", v |-> -1]
NullNumber == [t |-> "null", v |-> 0]

Digits == <<"0", "1", "2", "3", "4", "5", "6", "7", "8", "9">>

IsDigit(c) == \E i \in 1..10 : Digits[i] = c

DigitValue(c) == (CHOOSE i \in 1..10 : Digits[i] = c) - 1

IsWhiteSpace(c) == c \in {" ", "\t", "\n"}

Prefix == <<"G", "1", "0", "k">>

\* StartsWith with the prefix cut short by a character
StartsWithShort(data, prefix) ==
    /\ Len(data) >= Len(prefix) - 1
    /\ SubSeq(data, 1, Len(prefix) - 1) = SubSeq(prefix, 1, Len(prefix) - 1)

\* StartsWith comparing the first character only
StartsWithFirst(data, prefix) ==
    /\ Len(data) >= 1
    /\ SubSeq(data, 1, 1) = SubSeq(prefix, 1, 1)

StartsWith(data, prefix) ==
    /\ Len(data) >= Len(prefix)
    /\ SubSeq(data, 1, Len(prefix)) = prefix

Least(S) == CHOOSE i \in S : \A j \in S : i <= j

\* The characters of s from the first of the indices on; none: the empty string.
From(s, indices) ==
    IF indices = {} THEN <<>> ELSE SubSeq(s, Least(indices), Len(s))

TrimStart(s) == From(s, {i \in 1..Len(s) : ~IsWhiteSpace(s[i])})

LeadingDigits(s) ==
    LET rest == {i \in 1..Len(s) : ~IsDigit(s[i])}
    IN  IF rest = {} THEN s ELSE SubSeq(s, 1, Least(rest) - 1)

StripZeros(s) == From(s, {i \in 1..Len(s) : s[i] # "0"})

RECURSIVE DecimalValue(_)
DecimalValue(s) ==
    IF s = <<>> THEN 0
    ELSE 10 * DecimalValue(SubSeq(s, 1, Len(s) - 1)) + DigitValue(s[Len(s)])

\* parseInt(data, 10): leading white space, a sign, then the longest run of
\* digits; what follows the digits is ignored.  No digit: NaN.  A value of
\* more than 309 digits exceeds the largest double and is Infinity.
ParseInt(data) ==
    LET t == TrimStart(data)
        signed == t # <<>> /\ Head(t) \in {"+", "-"}
        sign == IF t # <<>> /\ Head(t) = "-" THEN -1 ELSE 1
        body == IF signed THEN Tail(t) ELSE t
        run == LeadingDigits(body)
        sig == StripZeros(run)
    IN  IF run = <<>> THEN NaN
        ELSE IF Len(sig) > 309
             THEN (IF sign = 1 THEN Infinity ELSE NegInfinity)
             ELSE Num(sign * DecimalValue(sig))

IsNaN(x) == x.t = "NaN"

\* JSON.stringify of the list: one <<participant, position>> per record, a
\* position that is not finite written as null.
JsonNumber(x) == IF x.t = "number" THEN x ELSE NullNumber

JsonStringify(list) ==
    [i \in DOMAIN list |-> <<list[i].participant, JsonNumber(list[i].position)>>]

JsonParse(text) ==
    [i \in DOMAIN text |-> [participant |-> text[i][1], position |-> text[i][2]]]

Absent == [present |-> FALSE, text |-> <<>>]
Stored(text) == [present |-> TRUE, text |-> text]

----------------------------------------------------------------------------
(* Scan payloads *)

G10kA == <<"G", "1", "0", "k", "A">>
G10kB == <<"G", "1", "0", "k", "B">>
Huge == [i \in 1..310 |-> "9"]

\* The barcodes an event has in circulation: participant codes, a code
\* without the prefix, and finish tokens.
Decks ==
    [ numbered |-> {G10kA, G10kB, <<"G", "1", "0">>, <<"1", "7">>,
                    <<"1", "7", "a", "b", "c">>, <<"-", "5">>},
      overlong |-> {G10kA, G10kB, <<"G", "1", "0">>, Huge} ]

Payloads == UNION {Decks[d] : d \in DOMAIN Decks}

\* parseInt over the payloads, computed once
Parsed == [data \in Payloads |-> ParseInt(data)]

----------------------------------------------------------------------------
(* Notices: a message is modelled by its template, without the values
   interpolated into it *)

NoBanner == "null"
ParticipantScanned == "Participant QR Code scanned! Participant: ${data}. Please scan the finish token."
AlreadyScanned == "Participant QR Code already scanned! Participant: ${data}"
InvalidQR == "Invalid QR Code. The QR code must start with G10k."
FinishScanned == "Finish token scanned! Participant: ${currentParticipant}, Position: ${position}"
InvalidToken == "Invalid Finish Token. The finish token must be a numeric value."
Cleared == "Storage cleared. All data has been wiped."

\* The operation the last step ran to its end, and whether it invoked
\* Haptics.notificationAsync; NoStep after a step that is none.
Step(name, haptic) == [step |-> name, haptic |-> haptic]
NoStep == Step("none", FALSE)

----------------------------------------------------------------------------
(* The component *)

Init ==
    /\ permission = Loading
    /\ scannedData = <<>>
    /\ currentParticipant = Null
    /\ bannerMessage = NoBanner
    /\ seenScannedData = <<>>
    /\ seenParticipant = Null
    /\ effectDue = FALSE
    /\ storage = Absent
    /\ load = [pc |-> "getItem", text |-> Absent]
    /\ saves = {JsonStringify(<<>>)}
    /\ clears = 0
    /\ timers = 0
    /\ deck \in DOMAIN Decks
    /\ last = NoStep
    /\ startedFrom = Absent

\* showBanner: set the notice and start the chain of animations and the
\* 3000 ms timeout that ends with setBannerMessage(null).
showBanner(message) ==
    /\ timers < MaxTimers
    /\ bannerMessage' = message
    /\ timers' = timers + 1

BannerDismiss ==
    /\ timers > 0
    /\ bannerMessage' = NoBanner
    /\ timers' = timers - 1
    /\ last' = NoStep
    /\ UNCHANGED <<permission, scannedData, currentParticipant, seenScannedData,
                   seenParticipant, effectDue, storage, load, saves, clears,
                   deck,
                   startedFrom>>

\* The camera permission arrives, or the operator answers the request.
PermissionResolved ==
    /\ permission = Loading
    /\ permission' \in {"granted", "denied"}
    /\ last' = NoStep
    /\ UNCHANGED <<scannedData, currentParticipant, bannerMessage, seenScannedData,
                   seenParticipant, effectDue, storage, load, saves, clears,
                   timers, deck,
                   startedFrom>>

requestPermission ==
    /\ permission = "denied"
    /\ permission' = "granted"
    /\ last' = NoStep
    /\ UNCHANGED <<scannedData, currentParticipant, bannerMessage, seenScannedData,
                   seenParticipant, effectDue, storage, load, saves, clears,
                   timers, deck,
                   startedFrom>>

\* SomeParticipant looking at no record
SomeParticipantNever(list, data) == FALSE

\* SomeParticipant taking any record for a match
SomeParticipantAny(list, data) == list # <<>>

\* scannedData.some(item => item.participant === data)
SomeParticipant(list, data) == \E i \in DOMAIN list : list[i].participant = data

\* scannedData.some(item => item.position === position)
SomePosition(list, position) == \E i \in DOMAIN list : list[i].position = position

\* The branches of handleBarcodeScanned.  Each one states what it sets; the
\* handler leaves the rest as it was.

\* lines 95-97: the participant is accepted
AcceptParticipant(data) ==
    /\ currentParticipant' = data
    /\ showBanner(ParticipantScanned)
    /\ last' = Step("accepted", TRUE)
    /\ UNCHANGED <<scannedData, effectDue>>

\* line 99: the participant has a record already
RejectScanned(data) ==
    /\ showBanner(AlreadyScanned)
    /\ last' = Step("alreadyScanned", FALSE)
    /\ UNCHANGED <<scannedData, currentParticipant, effectDue>>

\* line 102: the code lacks the prefix
RejectQR(data) ==
    /\ showBanner(InvalidQR)
    /\ last' = Step("invalidQR", FALSE)
    /\ UNCHANGED <<scannedData, currentParticipant, effectDue>>

\* RecordFinish without setCurrentParticipant(null)
RecordFinishKeepsPending(position) ==
    /\ Len(seenScannedData) < MaxRecords
    /\ scannedData' = Append(seenScannedData,
           [participant |-> seenParticipant, position |-> position])
    /\ effectDue' = TRUE
    /\ showBanner(FinishScanned)
    /\ last' = Step("recorded", TRUE)
    /\ UNCHANGED currentParticipant

\* lines 108-111: the pair is recorded
RecordFinish(position) ==
    /\ Len(seenScannedData) < MaxRecords
    /\ scannedData' = Append(seenScannedData,
           [participant |-> seenParticipant, position |-> position])
    /\ effectDue' = TRUE
    /\ showBanner(FinishScanned)
    /\ last' = Step("recorded", TRUE)
    /\ currentParticipant' = Null

\* IgnorePosition with the notice of lines 113-115 in place
NoticePosition(position) ==
    /\ showBanner("Finish token already scanned! Position: ${position}")
    /\ last' = Step("positionTaken", FALSE)
    /\ UNCHANGED <<scannedData, currentParticipant, effectDue>>

\* lines 112-115: the position has a record already; the notice is commented out
IgnorePosition(position) ==
    /\ last' = Step("positionTaken", FALSE)
    /\ UNCHANGED <<scannedData, currentParticipant, bannerMessage, effectDue,
                   timers>>

\* RejectToken with a haptic
RejectTokenHaptic(data) ==
    /\ showBanner(InvalidToken)
    /\ last' = Step("invalidToken", TRUE)
    /\ UNCHANGED <<scannedData, currentParticipant, effectDue>>

\* line 117: the token is not a number
RejectToken(data) ==
    /\ showBanner(InvalidToken)
    /\ last' = Step("invalidToken", FALSE)
    /\ UNCHANGED <<scannedData, currentParticipant, effectDue>>

\* handleBarcodeScanned({type, data}), run with the closure of the last render.
handleBarcodeScanned(data) ==
    /\ permission = "granted"
    /\ UNCHANGED <<permission, seenScannedData, seenParticipant, storage, load,
                   saves, clears, deck>>
    /\ startedFrom' = Absent
    /\ IF seenParticipant = Null
       THEN IF StartsWith(data, Prefix)
            THEN IF ~SomeParticipant(seenScannedData, data)
                 THEN AcceptParticipant(data)
                 ELSE RejectScanned(data)
            ELSE RejectQR(data)
       ELSE LET position == Parsed[data] IN
            IF ~IsNaN(position)
            THEN IF ~SomePosition(seenScannedData, position)
                 THEN RecordFinish(position)
                 ELSE IgnorePosition(position)
            ELSE RejectToken(data)

Scan == \E data \in Decks[deck] : handleBarcodeScanned(data)

\* A render of the component: the handlers close over the state as set, and
\* the effect on [scannedData] runs saveScannedData when the list was set.
RenderWithin(limit) ==
    /\ \/ effectDue
       \/ seenScannedData # scannedData
       \/ seenParticipant # currentParticipant
    /\ seenScannedData' = scannedData
    /\ seenParticipant' = currentParticipant
    /\ effectDue' = FALSE
    /\ IF effectDue
       THEN /\ Cardinality(saves \cup {JsonStringify(scannedData)}) <= limit
            /\ saves' = saves \cup {JsonStringify(scannedData)}
       ELSE UNCHANGED saves
    /\ last' = NoStep
    /\ UNCHANGED <<permission, scannedData, currentParticipant, bannerMessage,
                   storage, load, clears, timers, deck,
                   startedFrom>>

Render == RenderWithin(MaxSaves)

\* A render with room for a second setItem in flight
RenderOverlapping == RenderWithin(MaxOverlap)

\* saveScannedData: AsyncStorage.setItem resolves or rejects.
SaveDone ==
    \E text \in saves :
        /\ saves' = saves \ {text}
        /\ storage' = Stored(text)
        /\ last' = NoStep
        /\ UNCHANGED <<permission, scannedData, currentParticipant, bannerMessage,
                       seenScannedData, seenParticipant, effectDue, load, clears,
                       timers, deck, startedFrom>>

SaveFailed ==
    \E text \in saves :
        /\ saves' = saves \ {text}
        /\ startedFrom' = Absent
        /\ last' = Step("setItemFailed", FALSE)
        /\ UNCHANGED <<permission, scannedData, currentParticipant, bannerMessage,
                       seenScannedData, seenParticipant, effectDue, storage, load,
                       clears, timers, deck>>

\* loadScannedData: AsyncStorage.getItem reads the key ...
LoadRead ==
    /\ load.pc = "getItem"
    /\ load' = [pc |-> "await", text |-> storage]
    /\ last' = NoStep
    /\ UNCHANGED <<permission, scannedData, currentParticipant, bannerMessage,
                   seenScannedData, seenParticipant, effectDue, storage, saves,
                   clears, timers, deck,
                   startedFrom>>

\* ... and the function resumes with the text read.
LoadDone ==
    /\ load.pc = "await"
    /\ load' = [pc |-> "done", text |-> Absent]
    /\ IF load.text.present
       THEN /\ scannedData' = JsonParse(load.text.text)
            /\ effectDue' = TRUE
       ELSE UNCHANGED <<scannedData, effectDue>>
    /\ last' = NoStep
    /\ UNCHANGED <<permission, currentParticipant, bannerMessage, seenScannedData,
                   seenParticipant, storage, saves, clears, timers, deck,
                   startedFrom>>

LoadFailed ==
    /\ load.pc = "getItem"
    /\ load' = [pc |-> "done", text |-> Absent]
    /\ startedFrom' = Absent
    /\ last' = Step("getItemFailed", FALSE)
    /\ UNCHANGED <<permission, scannedData, currentParticipant, bannerMessage,
                   seenScannedData, seenParticipant, effectDue, storage, saves,
                   clears, timers, deck>>

\* clearStorage, up to its await ...
clearStorage ==
    /\ permission = "granted"
    /\ clears < MaxClears
    /\ clears' = clears + 1
    /\ startedFrom' = Absent
    /\ last' = Step("clearStorage", FALSE)
    /\ UNCHANGED <<permission, scannedData, currentParticipant, bannerMessage,
                   seenScannedData, seenParticipant, effectDue, storage, load,
                   saves, timers, deck>>

\* ClearDone without setScannedData([])
ClearDoneKeepsList ==
    /\ clears > 0
    /\ clears' = clears - 1
    /\ storage' = Absent
    /\ showBanner(Cleared)
    /\ last' = Step("cleared", TRUE)
    /\ UNCHANGED <<permission, scannedData, currentParticipant, effectDue,
                   seenScannedData, seenParticipant, load, saves, deck,
                   startedFrom>>

\* ... AsyncStorage.clear() resolves and the function resumes ...
ClearDone ==
    /\ clears > 0
    /\ clears' = clears - 1
    /\ storage' = Absent
    /\ scannedData' = <<>>
    /\ effectDue' = TRUE
    /\ showBanner(Cleared)
    /\ last' = Step("cleared", TRUE)
    /\ UNCHANGED <<permission, currentParticipant, seenScannedData,
                   seenParticipant, load, saves, deck,
                   startedFrom>>

\* ClearFailed with setScannedData([]) run all the same
ClearFailedWipes ==
    /\ clears > 0
    /\ clears' = clears - 1
    /\ scannedData' = <<>>
    /\ effectDue' = TRUE
    /\ last' = Step("clearFailed", FALSE)
    /\ UNCHANGED <<permission, currentParticipant, bannerMessage,
                   seenScannedData, seenParticipant, storage, load,
                   saves, timers, deck, startedFrom>>

\* ... or it rejects and the catch logs the error.
ClearFailed ==
    /\ clears > 0
    /\ clears' = clears - 1
    /\ last' = Step("clearFailed", FALSE)
    /\ UNCHANGED <<permission, scannedData, currentParticipant, bannerMessage,
                   seenScannedData, seenParticipant, effectDue, storage, load,
                   saves, timers, deck,
                   startedFrom>>

\* The app is closed and opened again: the component mounts anew, only
\* AsyncStorage survives.
Restart ==
    /\ permission' = Loading
    /\ scannedData' = <<>>
    /\ currentParticipant' = Null
    /\ bannerMessage' = NoBanner
    /\ seenScannedData' = <<>>
    /\ seenParticipant' = Null
    /\ effectDue' = FALSE
    /\ load' = [pc |-> "getItem", text |-> Absent]
    /\ saves' = {JsonStringify(<<>>)}
    /\ clears' = 0
    /\ timers' = 0
    /\ last' = NoStep
    /\ startedFrom' = storage
    /\ UNCHANGED <<storage, deck>>

Next ==
    \/ PermissionResolved
    \/ requestPermission
    \/ Scan
    \/ Render
    \/ SaveDone
    \/ SaveFailed
    \/ LoadRead
    \/ LoadDone
    \/ LoadFailed
    \/ clearStorage
    \/ ClearDone
    \/ ClearFailed
    \/ BannerDismiss
    \/ Restart

Spec == Init /\ [][Next]_vars

\* The app with no call to AsyncStorage failing, with room for two persists in
\* flight, every call in flight completing and every render due taking place.
PersistNext ==
    \/ PermissionResolved
    \/ requestPermission
    \/ Scan
    \/ RenderOverlapping
    \/ SaveDone
    \/ LoadRead
    \/ LoadDone
    \/ clearStorage
    \/ ClearDone
    \/ BannerDismiss
    \/ Restart

PersistSpec ==
    /\ Init
    /\ [][PersistNext]_vars
    /\ WF_vars(RenderOverlapping)
    /\ WF_vars(SaveDone)
    /\ WF_vars(LoadRead)
    /\ WF_vars(LoadDone)
    /\ WF_vars(ClearDone)

----------------------------------------------------------------------------
(* Vocabulary of the claims.  RecordList is scannedData, the list the       *)
(* component holds; the pending participant is currentParticipant.  A scan *)
(* is evaluated by the handler of the last render, so "while Idle" and     *)
(* "while AwaitingFinish" speak of seenParticipant, and "in RecordList" of *)
(* a scan's case speaks of seenScannedData.                                *)

ParticipantsOf(list) == {list[i].participant : i \in DOMAIN list}

PositionsOf(list) == {list[i].position : i \in DOMAIN list}

HasPrefix(data) ==
    /\ Len(data) >= 4
    /\ data[1] = "G" /\ data[2] = "1" /\ data[3] = "0" /\ data[4] = "k"

\* A numeric string: digits, after an optional sign.
IsNumeric(data) ==
    LET body == IF data # <<>> /\ data[1] \in {"+", "-"} THEN Tail(data) ELSE data
    IN  body # <<>> /\ \A i \in DOMAIN body : IsDigit(body[i])

\* The payloads of the model by their form, computed once
NumericPayloads == {data \in Payloads : IsNumeric(data)}
PrefixedPayloads == {data \in Payloads : HasPrefix(data)}

\* C1: in every reachable state no two records of RecordList have the same
\* participant.
C1_UniqueParticipants ==
    \A i, j \in DOMAIN scannedData :
        i # j => scannedData[i].participant # scannedData[j].participant

\* C2: in every reachable state no two records of RecordList have the same
\* position.
C2_UniquePositions ==
    \A i, j \in DOMAIN scannedData :
        i # j => scannedData[i].position # scannedData[j].position

C8_NonNumericRejected ==
    [][ \A data \in Payloads \ NumericPayloads :
            ( /\ seenParticipant # Null
              /\ handleBarcodeScanned(data) )
            => /\ UNCHANGED <<scannedData, currentParticipant, seenParticipant>>
               /\ bannerMessage' = InvalidToken ]_vars

C10_PendingUntilMatch ==
    [][ ( /\ currentParticipant # Null
          /\ currentParticipant' # currentParticipant
          /\ ~Restart )
        => /\ last'.step = "recorded"
           /\ currentParticipant' = Null ]_vars

\* C11: in every reachable state the pending participant, when there is one,
\* is the participant of no record of RecordList, also when the startup load
\* completes after a participant was accepted.
C11_PendingNotRecorded ==
    currentParticipant # Null =>
        currentParticipant \notin ParticipantsOf(scannedData)

\* The startup has run to its end: the load is done, no persist is due or in
\* flight, and the component has rendered what was set.
StartupDone ==
    /\ load.pc = "done"
    /\ saves = {}
    /\ ~effectDue
    /\ seenScannedData = scannedData

\* C12: when the app is opened on a list L persisted by an earlier session,
\* then once the startup (the load and the mount-time persist of the empty
\* list, completing in any order, none failing) has run to its end RecordList
\* is L, in the same order, and storage still holds L.
C12_RoundTrip ==
    (startedFrom.present /\ StartupDone)
        => /\ scannedData = JsonParse(startedFrom.text)
           /\ storage = startedFrom

\* list `a` is the beginning of list `b`
IsPrefix(a, b) == Len(a) <= Len(b) /\ SubSeq(b, 1, Len(a)) = a

\* C13: between resets RecordList is append-only: a step of the running app
\* other than the completion of a reset keeps every record at its place, so the
\* list before the step is the beginning of the list after it; in particular
\* the completion of the startup load discards no record.  A scan is taken as
\* evaluated against the current list (a scan that is not is the matter of C15).
C13_AppendOnly ==
    [][ ( /\ ~IsPrefix(scannedData, scannedData')
          /\ last'.step # "cleared"
          /\ last'.step = "recorded" => seenScannedData = scannedData )
        => Restart ]_vars

\* The steps in which a call to AsyncStorage fails and the catch logs it
Failures == {"getItemFailed", "setItemFailed", "clearFailed"}

\* C14: a failing call to AsyncStorage (getItem of the load, setItem of a
\* persist, clear of a reset) leaves RecordList and the pending participant
\* as they were, and the error goes no further than the log: no notice, no
\* haptic, the stored value and the permission stay as they were.
C14_FailureChangesNothing ==
    [][ last'.step \in Failures
        => /\ UNCHANGED <<scannedData, currentParticipant, seenScannedData,
                          seenParticipant, bannerMessage, storage, permission>>
           /\ ~last'.haptic ]_vars

\* witness of C14: a reset has failed with a record in the list and a
\* participant pending
C14_Witness ==
    /\ last.step = "clearFailed"
    /\ scannedData # <<>>
    /\ currentParticipant # Null

\* The steps that are a scan run to its end
ScanSteps == {"accepted", "alreadyScanned", "invalidQR", "recorded",
              "positionTaken", "invalidToken"}

\* C15: a scan is evaluated against the state the earlier scans produced, also
\* when it is delivered before the component has rendered again: it keeps
\* every record of RecordList at its place, and a participant pending before
\* it is either still pending after it or the participant of the record the
\* scan has appended.
C15_ScanSeesLatest ==
    [][ last'.step \in ScanSteps
        => /\ IsPrefix(scannedData, scannedData')
           /\ currentParticipant # Null
                => \/ currentParticipant' = currentParticipant
                   \/ /\ last'.step = "recorded"
                      /\ Len(scannedData') = Len(scannedData) + 1
                      /\ scannedData'[Len(scannedData')].participant
                             = currentParticipant ]_vars

\* a non-negative integer, as a JavaScript value
IsNonNegativeInteger(x) == x.t = "number" /\ x.v >= 0

\* C16: every record a scan appends to RecordList has a position that is a
\* non-negative integer; a payload such as "-5" produces no record.
C16_PositionNonNegative ==
    last.step = "recorded"
        => IsNonNegativeInteger(scannedData[Len(scannedData)].position)

\* Nothing of the persistence is due or in flight: the load is done, no reset
\* awaits its clear(), RecordList has not been set since the last render and
\* no setItem is in flight.  From such a state on, the stored value changes
\* only after RecordList is set again.
Settled ==
    /\ load.pc = "done"
    /\ clears = 0
    /\ ~effectDue
    /\ saves = {}

\* C17: with no call to AsyncStorage failing and every call completing, once
\* RecordList has changed (append, load, reset) and is not set again, the
\* value stored under the key comes to be the full RecordList, also when
\* persists complete out of the order they were issued in.  When all calls
\* have completed the stored value changes no more, so by then it must be
\* the list.
C17_PersistFollows ==
    Settled => storage = Stored(JsonStringify(scannedData))

\* The three success events, and the rejections of a scan
Successes == {"accepted", "recorded", "cleared"}
Rejections == {"invalidQR", "alreadyScanned", "invalidToken", "positionTaken"}

\* C18: the haptic is invoked by the steps that accept a participant, record a
\* pair or complete a reset, each with its notice in the slot, and by no other
\* step: not by a rejected scan (code without the prefix, participant already
\* recorded, token that is no number, position already taken) and not by a
\* reset whose clear() failed.
C18_HapticOnSuccessOnly ==
    /\ last.haptic <=> last.step \in Successes
    /\ last.step \in Rejections \cup {"clearFailed"} => ~last.haptic
    /\ last.step = "accepted" => bannerMessage = ParticipantScanned
    /\ last.step = "recorded" => bannerMessage = FinishScanned
    /\ last.step = "cleared" => bannerMessage = Cleared

\* witness of C18: a token that is no number has just been rejected, with its
\* notice and without a haptic
C18_Witness ==
    /\ last.step = "invalidToken"
    /\ ~last.haptic
    /\ bannerMessage = InvalidToken
    /\ currentParticipant # Null

\* C19: in every reachable state, the app having started from no stored list
\* or from one it has stored itself, the participant of every record of
\* RecordList starts with "G10k".
C19_ParticipantsPrefixed ==
    \A i \in DOMAIN scannedData : HasPrefix(scannedData[i].participant)

\* witness of C19: a scan has just appended a second record, the load being
\* done and a list of records being in storage
C19_Witness ==
    /\ last.step = "recorded"
    /\ Len(scannedData) = 2
    /\ load.pc = "done"
    /\ storage.present /\ storage.text # <<>>
    /\ \A i \in DOMAIN scannedData : HasPrefix(scannedData[i].participant)

\* C20: a notice in the slot is cleared only by its own dismissal: a dismissal
\* that fires while the dismissal of a later notice is still pending (the
\* timeouts fire in the order they were set) leaves the slot, which holds the
\* later notice, as it is.
C20_OwnDismissalOnly ==
    [][ ( /\ timers >= 2
          /\ timers' = timers - 1
          /\ bannerMessage # NoBanner )
        => bannerMessage' = bannerMessage ]_vars

====
